---- MODULE Spec2Model ----
(***************************************************************************)
(* Registration-history lifecycle of the photo routes (routes/photos.js):  *)
(* POST /, PUT /:id and DELETE /:id against the relational store and the   *)
(* media store, and the reference-data and registration routes.  A request  *)
(* runs to completion as one step; the handlers section models DELETE and  *)
(* PUT one store call at a time.                                           *)
(***************************************************************************)
EXTENDS Integers, FiniteSets, Sequences, TLC

\* ---------------------------------------------------------------- bounds
MaxKey == 3      \* uploads (media keys) ever issued
MaxRh  == 4      \* RegistrationHistory identifiers ever issued
MaxSa  == 4      \* SpecificAircraft identifiers ever issued

\* ------------------------------------------------------- request values
undefined == "undefined"     \* a body field the client did not send
Users == {"u1", "u2"}
Uploaders == {"u1"}          \* the users who upload and update photos

\* a handler that uses the text as it was typed
asTyped(s) == s

\* String.prototype.toUpperCase over the strings the requests carry
toUpperCase(s) ==
  CASE s = "n1"   -> "N1"
    [] s = "n2"   -> "N2"
    [] s = "ksfo" -> "KSFO"
    [] s = "kaaa" -> "KAAA"
    [] s = "c172" -> "C172"
    [] s = "b738" -> "B738"
    [] OTHER      -> s

\* the number 0 in a JSON body (multipart bodies carry strings only)
NumberZero == "Number(0)"

\* JavaScript truthiness of a body field (string, number 0 or absent)
Truthy(v) == v \notin {undefined, "", NumberZero}

VARIABLES
  Photo,                \* rows [id, user_id, uuid_rh, airport_code, image_url]
  RegistrationHistory,  \* rows [uuid_rh, uuid_sa, registration, is_current]
  SpecificAircraft,     \* rows [uuid, icao_type]
  Airport,              \* icao_code of every Airport row
  S3,                   \* keys of the media objects in the bucket
  nextPhoto, nextRh, nextSa, nextKey,   \* identifiers not issued yet
  s3Deletes,            \* keys for which a DeleteObjectCommand was sent
  last,                 \* what the handler of the last request did:
                        \*   op      "post", "delete", "put"
                        \*   found   the fetch by id and user_id gave a row
                        \*   exists  a Photo row has the id of the request
                        \*   old     uuid_rh of the fetched photo
                        \*   new     uuid_rh written to the photo
                        \*   branch  how it was resolved: "given" (uuid_rh
                        \*           of the body), "insert", "lookup"
  res,                  \* its response
  AircraftType,         \* rows [icao_type, by]; by is the role (req.user.type)
                        \* of the caller whose request inserted the row
  User,                 \* username of every User row
  handlers              \* the requests that run one store call at a time

store == <<Photo, RegistrationHistory, SpecificAircraft, Airport>>
ids   == <<nextPhoto, nextRh, nextSa, nextKey>>
aside == <<AircraftType, User, handlers>>
vars  == <<Photo, RegistrationHistory, SpecificAircraft, Airport, S3,
           nextPhoto, nextRh, nextSa, nextKey, s3Deletes, last, res,
           AircraftType, User, handlers>>

\* ------------------------------------------------------ request bodies
\* airport part of a body: a listed airport, or "other" with its details
AirportInputs ==
  { [airport_code |-> "KSFO", airport_icao_code |-> undefined,
     airport_name |-> undefined, airport_latitude |-> undefined,
     airport_longitude |-> undefined],
    [airport_code |-> "other", airport_icao_code |-> "kaaa",
     airport_name |-> "Alpha", airport_latitude |-> "1.5",
     airport_longitude |-> "2.5"],
    [airport_code |-> "other", airport_icao_code |-> "ksfo",
     airport_name |-> "Dup", airport_latitude |-> "1.5",
     airport_longitude |-> "2.5"],
    [airport_code |-> "other", airport_icao_code |-> "kaaa",
     airport_name |-> "Alpha", airport_latitude |-> undefined,
     airport_longitude |-> "2.5"] }

ListedAirport == CHOOSE a \in AirportInputs : a.airport_code # "other"

\* "other" with all details of an airport, its latitude being v
AtLatitude(v) ==
  [airport_code |-> "other", airport_icao_code |-> "kaaa",
   airport_name |-> "Alpha", airport_latitude |-> v,
   airport_longitude |-> "2.5"]

\* the airport parts of a multipart body (POST /), and of a JSON body
\* (PUT /:id), where a latitude can be the number 0
FormAirportInputs == AirportInputs \cup {AtLatitude("0")}
JsonAirportInputs == FormAirportInputs \cup {AtLatitude(NumberZero)}

\* "other" with the details of an airport that is not in the table
NewAirport ==
  CHOOSE a \in AirportInputs :
    /\ a.airport_code = "other"
    /\ toUpperCase(a.airport_icao_code) = "KAAA"
    /\ a.airport_latitude = "1.5"

RegistrationInputs == {undefined, "n1"}
AircraftTypeInputs == {undefined, "C172"}
MkBody(r, t, h, a) ==
  [registration |-> r, aircraft_type_id |-> t, uuid_rh |-> h,
   airport_code |-> a.airport_code,
   airport_icao_code |-> a.airport_icao_code,
   airport_name |-> a.airport_name,
   airport_latitude |-> a.airport_latitude,
   airport_longitude |-> a.airport_longitude]

\* "all airport fields are required" test of POST / and PUT /:id
airportFieldsMissing(body) ==
  \/ ~Truthy(body.airport_icao_code)
  \/ ~Truthy(body.airport_name)
  \/ ~Truthy(body.airport_latitude)
  \/ ~Truthy(body.airport_longitude)

\* the airport parts that leave the Airport table as it is
KnownAirportInputs ==
  {a \in AirportInputs :
     a.airport_code # "other" \/ airportFieldsMissing(a)
       \/ toUpperCase(a.airport_icao_code) = "KSFO"}

\* an explicit uuid_rh: the identifier of a row of the table, or one that
\* names no row
UuidRhInputs == {r.uuid_rh : r \in RegistrationHistory} \cup {MaxRh + 1}

\* the bodies of POST / and PUT /:id.  Without uuid_rh: every registration
\* part with a listed airport, a lookup of a second registration, and the
\* airport parts with a registration that is created or looked up.  With uuid_rh: alone, and together with the
\* fields of a new registration.
Bodies(airports) ==
  { MkBody(r, t, 0, ListedAirport) :
      r \in RegistrationInputs, t \in AircraftTypeInputs }
  \cup
  { MkBody("N2", undefined, 0, ListedAirport) }
  \cup
  { MkBody("n1", t, 0, a) : t \in AircraftTypeInputs, a \in airports }
  \cup
  { MkBody("n1", t, h, ListedAirport) :
      t \in AircraftTypeInputs, h \in UuidRhInputs }

NoBody == MkBody(undefined, undefined, 0, ListedAirport)

\* ---------------------------------------------------------- initial store
NoRequest == [op |-> "none", found |-> FALSE, exists |-> FALSE,
              old |-> 0, new |-> 0, branch |-> "none"]
NoResponse == [status |-> 0, error |-> ""]

\* the slots of the requests that run one store call at a time, and the
\* locals of a slot in which no request runs
Handlers == {"h1", "h2"}
NoCount == -1    \* the count of a select that failed (null)
Idle == [pc |-> "idle", op |-> "none", user |-> "u1", id |-> 0,
         body |-> NoBody,
         old |-> 0,          \* uuid_rh of the fetched photo
         final |-> 0,        \* final_uuid_rh
         airport |-> "",     \* final_airport_code
         image |-> 0,        \* image_url of the fetched photo
         saData |-> 0,       \* uuid of the SpecificAircraft it inserted
         count |-> NoCount,  \* photoCount as read
         sa |-> 0,           \* uuid_sa of rhData (0: no row was read)
         failed |-> FALSE,   \* a call to the relational store failed
         late |-> FALSE,     \* ... and another call was made after it
         issued |-> FALSE,   \* the RegistrationHistory delete was sent
         status |-> 0]       \* status of the response (0: none yet)

\* a database without rows: the two photos uploaded so far, and with them
\* their registrations and airframes, have been deleted again
EmptyStore ==
  /\ Photo = {} /\ RegistrationHistory = {} /\ SpecificAircraft = {}
  /\ S3 = {}
  /\ nextPhoto = 3 /\ nextRh = 3 /\ nextSa = 3 /\ nextKey = 3

\* one airframe that carried two registrations, each photographed once; a
\* second airframe has been deleted again
SharedAirframeStore ==
  /\ SpecificAircraft = {[uuid |-> 1, icao_type |-> "C172"]}
  /\ RegistrationHistory =
       {[uuid_rh |-> 1, uuid_sa |-> 1, registration |-> "N1",
         is_current |-> FALSE],
        [uuid_rh |-> 2, uuid_sa |-> 1, registration |-> "N2",
         is_current |-> TRUE]}
  /\ Photo =
       {[id |-> 1, user_id |-> "u1", uuid_rh |-> 1, airport_code |-> "KSFO",
         image_url |-> 1],
        [id |-> 2, user_id |-> "u2", uuid_rh |-> 2, airport_code |-> "KSFO",
         image_url |-> 2]}
  /\ S3 = {1, 2}
  /\ nextPhoto = 3 /\ nextRh = 3 /\ nextSa = 3 /\ nextKey = 3

\* the reference rows and accounts on file, and no request under way
ReferenceData ==
  /\ Airport = {"KSFO"}
  /\ AircraftType = {[icao_type |-> "C172", by |-> "admin"]}
  /\ User = {"alice"}
  /\ handlers = [h \in Handlers |-> Idle]
  /\ s3Deletes = {}
  /\ last = NoRequest
  /\ res = NoResponse

Init ==
  /\ EmptyStore \/ SharedAirframeStore
  /\ ReferenceData

\* ------------------------------------------------------------ responses
Respond(status, error) == res' = [status |-> status, error |-> error]

\* --------------------------------------------------------------- store
\* photoCount filtering on the wrong column
photoCountById(P, ref) == Cardinality({p \in P : p.id = ref})

\* .select("*", {count: "exact", head: true}).eq("uuid_rh", ref) on Photo
photoCount(P, ref) == Cardinality({p \in P : p.uuid_rh = ref})

\* rhCount without its filter on the airframe
rhCountAll(RH, ref) == Cardinality(RH)

\* .select(...).eq("uuid_sa", ref) count on RegistrationHistory
rhCount(RH, ref) == Cardinality({r \in RH : r.uuid_sa = ref})

\* the lookup without its filter on the registration
rhLookupAny(RH, text) == {r.uuid_rh : r \in RH}

\* .eq("registration", text).limit(1): the rows one of which is returned
rhLookup(RH, text) == {r.uuid_rh : r \in {x \in RH : x.registration = text}}

\* the fetch without its filter on the owner
fetchPhotoOfAnyUser(P, photoId, user) == {p \in P : p.id = photoId}

\* .from("Photo").select(...).eq("id", photoId).eq("user_id", user).single()
fetchPhoto(P, photoId, user) ==
  {p \in P : p.id = photoId /\ p.user_id = user}

\* .from("SpecificAircraft").insert([{icao_type, manufactured_date}])
insertSpecificAircraft(SA, uuid, icao_type) ==
  SA \cup {[uuid |-> uuid, icao_type |-> icao_type]}

\* an insert that reuses a row on file for the registration
insertRegistrationHistoryOnce(RH, uuid_rh, uuid_sa, registration) ==
  IF \E r \in RH : r.registration = registration
  THEN RH
  ELSE RH \cup {[uuid_rh |-> uuid_rh, uuid_sa |-> uuid_sa,
                 registration |-> registration, is_current |-> TRUE]}

\* .from("RegistrationHistory").insert([{uuid_sa, registration, airline,
\* is_current: true}]); registration arrives uppercased
insertRegistrationHistory(RH, uuid_rh, uuid_sa, registration) ==
  RH \cup {[uuid_rh |-> uuid_rh, uuid_sa |-> uuid_sa,
            registration |-> registration, is_current |-> TRUE]}

\* Cleanup deleting the SpecificAircraft without counting the rows left
CleanupWithoutRhCount(P, RH, SA, ref) ==
  IF photoCount(P, ref) = 0
  THEN LET rhData == {r \in RH : r.uuid_rh = ref}
           RH2    == {r \in RH : r.uuid_rh # ref}
       IN  IF rhData # {}
           THEN LET uuid_sa == (CHOOSE r \in rhData : TRUE).uuid_sa
                IN  [RH |-> RH2, SA |-> {a \in SA : a.uuid # uuid_sa}]
           ELSE [RH |-> RH2, SA |-> SA]
  ELSE [RH |-> RH, SA |-> SA]

\* Cleanup that does not count the photos left
CleanupWithoutPhotoCount(P, RH, SA, ref) ==
  LET rhData == {r \in RH : r.uuid_rh = ref}
      RH2    == {r \in RH : r.uuid_rh # ref}
  IN  IF rhData # {}
      THEN LET uuid_sa == (CHOOSE r \in rhData : TRUE).uuid_sa
           IN  IF rhCount(RH2, uuid_sa) = 0
               THEN [RH |-> RH2, SA |-> {a \in SA : a.uuid # uuid_sa}]
               ELSE [RH |-> RH2, SA |-> SA]
      ELSE [RH |-> RH2, SA |-> SA]

\* Cleanup stopping after the RegistrationHistory delete
CleanupRhOnly(P, RH, SA, ref) ==
  IF photoCount(P, ref) = 0
  THEN [RH |-> {r \in RH : r.uuid_rh # ref}, SA |-> SA]
  ELSE [RH |-> RH, SA |-> SA]

\* Cleanup that deletes every SpecificAircraft left without rows
CleanupSweeping(P, RH, SA, ref) ==
  IF photoCount(P, ref) = 0
  THEN LET RH2 == {r \in RH : r.uuid_rh # ref}
       IN  [RH |-> RH2, SA |-> {a \in SA : rhCount(RH2, a.uuid) # 0}]
  ELSE [RH |-> RH, SA |-> SA]

\* the reference-counted cleanup that follows a Photo delete or re-point:
\* the RegistrationHistory and SpecificAircraft tables it leaves behind
Cleanup(P, RH, SA, ref) ==
  IF photoCount(P, ref) = 0
  THEN LET rhData == {r \in RH : r.uuid_rh = ref}
           RH2    == {r \in RH : r.uuid_rh # ref}
       IN  IF rhData # {}
           THEN LET uuid_sa == (CHOOSE r \in rhData : TRUE).uuid_sa
                IN  IF rhCount(RH2, uuid_sa) = 0
                    THEN [RH |-> RH2, SA |-> {a \in SA : a.uuid # uuid_sa}]
                    ELSE [RH |-> RH2, SA |-> SA]
           ELSE [RH |-> RH2, SA |-> SA]
  ELSE [RH |-> RH, SA |-> SA]

\* insert into Airport, whose icao_code is unique: the rows afterwards and
\* the code of the error
insertAirport(A, icao_code) ==
  IF icao_code \in A
  THEN [rows |-> A, error |-> "23505"]
  ELSE [rows |-> A \cup {icao_code}, error |-> ""]

\* PUT /:id goes on after no other error of the airport insert than this
noToleratedError == "none"
toleratedAirportError == "23505"

\* a handler that takes no uuid_rh from the body
suppliedNever(uuid_rh) == FALSE

\* truthiness of the uuid_rh of the body: an identifier was supplied
supplied(uuid_rh) == uuid_rh # 0

\* ------------------------------------------------------------- POST /
post(user, body, file) ==
  LET other    == body.airport_code = "other"
      icao     == toUpperCase(body.airport_icao_code)
      resolve  == ~supplied(body.uuid_rh)
      creates  == resolve /\ Truthy(body.aircraft_type_id)
      inserted == insertAirport(Airport, icao)
      airport_code == IF other THEN icao ELSE body.airport_code
      newPhoto(uuid_rh) ==
                  [id |-> nextPhoto, user_id |-> user, uuid_rh |-> uuid_rh,
                   airport_code |-> airport_code, image_url |-> nextKey]
      done(new, branch) ==
                  last' = [op |-> "post", found |-> FALSE, exists |-> FALSE,
                           old |-> 0, new |-> new, branch |-> branch]
  IN
  /\ UNCHANGED <<s3Deletes, aside>>
  /\ IF ~file
     THEN /\ Respond(400, "Image file is required.")
          /\ done(0, "none")
          /\ UNCHANGED <<store, S3, ids>>
     ELSE
     /\ nextKey <= MaxKey
     /\ nextKey' = nextKey + 1
     /\ S3' = S3 \cup {nextKey}
     /\ IF other /\ airportFieldsMissing(body)
        THEN /\ Respond(400, "All airport fields are required")
             /\ done(0, "none")
             /\ UNCHANGED <<store, nextPhoto, nextRh, nextSa>>
        ELSE IF other /\ inserted.error # ""
        THEN /\ Respond(500, "Failed to insert airport")
             /\ done(0, "none")
             /\ UNCHANGED <<store, nextPhoto, nextRh, nextSa>>
        ELSE
        /\ Airport' = IF other THEN inserted.rows ELSE Airport
        /\ IF creates
           THEN /\ nextSa <= MaxSa
                /\ nextSa' = nextSa + 1
                /\ SpecificAircraft' =
                     insertSpecificAircraft(SpecificAircraft, nextSa,
                                            body.aircraft_type_id)
                /\ IF body.registration = undefined
                   THEN \* registration.toUpperCase() throws a TypeError
                        /\ Respond(500, "TypeError")
                        /\ done(0, "insert")
                        /\ UNCHANGED <<Photo, RegistrationHistory,
                                       nextPhoto, nextRh>>
                   ELSE /\ nextRh <= MaxRh
                        /\ nextRh' = nextRh + 1
                        /\ RegistrationHistory' =
                             insertRegistrationHistory(
                               RegistrationHistory, nextRh, nextSa,
                               toUpperCase(body.registration))
                        /\ Photo' = Photo \cup {newPhoto(nextRh)}
                        /\ nextPhoto' = nextPhoto + 1
                        /\ done(nextRh, "insert")
                        /\ Respond(201, "")
           ELSE IF resolve
           THEN /\ UNCHANGED <<RegistrationHistory, SpecificAircraft,
                               nextRh, nextSa>>
                /\ IF body.registration = undefined
                   THEN /\ Respond(500, "TypeError")
                        /\ done(0, "lookup")
                        /\ UNCHANGED <<Photo, nextPhoto>>
                   ELSE
                   LET rhData == rhLookup(RegistrationHistory,
                                          toUpperCase(body.registration))
                   IN  IF rhData = {}
                       THEN /\ Respond(404, "Registration not found.")
                            /\ done(0, "lookup")
                            /\ UNCHANGED <<Photo, nextPhoto>>
                       ELSE /\ \E found \in rhData :
                                 /\ Photo' = Photo \cup {newPhoto(found)}
                                 /\ done(found, "lookup")
                            /\ nextPhoto' = nextPhoto + 1
                            /\ Respond(201, "")
           ELSE /\ UNCHANGED <<RegistrationHistory, SpecificAircraft,
                               nextRh, nextSa>>
                /\ Photo' = Photo \cup {newPhoto(body.uuid_rh)}
                /\ nextPhoto' = nextPhoto + 1
                /\ done(body.uuid_rh, "given")
                /\ Respond(201, "")

\* ------------------------------------------------------- DELETE /:id
delete(user, photoId) ==
  LET fetched == fetchPhoto(Photo, photoId, user)
  IN
  /\ last' = [op |-> "delete", found |-> fetched # {},
              exists |-> \E p \in Photo : p.id = photoId,
              old |-> IF fetched = {} THEN 0
                      ELSE (CHOOSE p \in fetched : TRUE).uuid_rh,
              new |-> 0, branch |-> "none"]
  /\ UNCHANGED <<Airport, ids, aside>>
  /\ IF fetched = {}
     THEN /\ Respond(404, "Photo not found or access denied")
          /\ UNCHANGED <<Photo, RegistrationHistory, SpecificAircraft,
                         S3, s3Deletes>>
     ELSE LET photo == CHOOSE p \in fetched : TRUE
              P2    == {p \in Photo : p.id # photoId}
              c     == IF photo.uuid_rh # 0
                       THEN Cleanup(P2, RegistrationHistory,
                                    SpecificAircraft, photo.uuid_rh)
                       ELSE [RH |-> RegistrationHistory,
                             SA |-> SpecificAircraft]
          IN  /\ s3Deletes' = s3Deletes \cup {photo.image_url}
              /\ S3' = S3 \ {photo.image_url}
              /\ Photo' = P2
              /\ RegistrationHistory' = c.RH
              /\ SpecificAircraft' = c.SA
              /\ Respond(200, "Photo deleted and cleanup performed")

\* ---------------------------------------------------------- PUT /:id
put(user, photoId, body) ==
  LET fetched == fetchPhoto(Photo, photoId, user)
      other   == body.airport_code = "other"
      icao    == toUpperCase(body.airport_icao_code)
      inserted == insertAirport(Airport, icao)
      done(old, new, branch) ==
                 last' = [op |-> "put", found |-> fetched # {},
                          exists |-> \E p \in Photo : p.id = photoId,
                          old |-> old, new |-> new, branch |-> branch]
  IN
  /\ UNCHANGED <<S3, s3Deletes, nextPhoto, nextKey, aside>>
  /\ IF fetched = {}
     THEN /\ Respond(404, "Photo not found or unauthorized")
          /\ done(0, 0, "none")
          /\ UNCHANGED <<store, nextRh, nextSa>>
     ELSE IF other /\ airportFieldsMissing(body)
     THEN /\ Respond(400, "All airport fields are required")
          /\ done((CHOOSE p \in fetched : TRUE).uuid_rh, 0, "none")
          /\ UNCHANGED <<store, nextRh, nextSa>>
     ELSE IF other /\ inserted.error \notin {"", toleratedAirportError}
     THEN /\ Respond(500, "Failed to insert airport")
          /\ done((CHOOSE p \in fetched : TRUE).uuid_rh, 0, "none")
          /\ UNCHANGED <<store, nextRh, nextSa>>
     ELSE
     LET currentPhoto == CHOOSE p \in fetched : TRUE
         old_uuid_rh  == currentPhoto.uuid_rh
         new_uuid_rh  == body.uuid_rh
         final_airport_code == IF other THEN icao ELSE body.airport_code
         scenarioA == supplied(new_uuid_rh) /\ new_uuid_rh # old_uuid_rh
         scenarioB == ~scenarioA /\ Truthy(body.registration)
                        /\ ~supplied(new_uuid_rh)
         creates   == scenarioB /\ Truthy(body.aircraft_type_id)
         rhData == rhLookup(RegistrationHistory,
                            toUpperCase(body.registration))
         finals == IF scenarioA THEN {new_uuid_rh}
                   ELSE IF creates THEN {nextRh}
                   ELSE IF scenarioB /\ rhData # {} THEN rhData
                   ELSE {old_uuid_rh}
         RH1 == IF creates
                THEN insertRegistrationHistory(
                       RegistrationHistory, nextRh, nextSa,
                       toUpperCase(body.registration))
                ELSE RegistrationHistory
         SA1 == IF creates
                THEN insertSpecificAircraft(SpecificAircraft, nextSa,
                                            body.aircraft_type_id)
                ELSE SpecificAircraft
         branch == IF scenarioA THEN "given"
                   ELSE IF creates THEN "insert"
                   ELSE IF scenarioB THEN "lookup"
                   ELSE "none"
     IN
     /\ creates => nextRh <= MaxRh /\ nextSa <= MaxSa
     /\ nextRh' = IF creates THEN nextRh + 1 ELSE nextRh
     /\ nextSa' = IF creates THEN nextSa + 1 ELSE nextSa
     /\ Airport' = IF other THEN inserted.rows ELSE Airport
     /\ \E final_uuid_rh \in finals :
          LET P2 == {IF p.id = photoId
                     THEN [p EXCEPT !.airport_code = final_airport_code,
                                    !.uuid_rh = final_uuid_rh]
                     ELSE p : p \in Photo}
              c  == IF final_uuid_rh # old_uuid_rh /\ old_uuid_rh # 0
                    THEN Cleanup(P2, RH1, SA1, old_uuid_rh)
                    ELSE [RH |-> RH1, SA |-> SA1]
          IN  /\ Photo' = P2
              /\ RegistrationHistory' = c.RH
              /\ SpecificAircraft' = c.SA
              /\ done(old_uuid_rh, final_uuid_rh, branch)
     /\ Respond(200, "Photo updated successfully")

\* identifiers a request can name as :id
PhotoIds == 1 .. MaxKey

PostRequest ==
  \E user \in Uploaders, body \in Bodies(KnownAirportInputs) :
    post(user, body, TRUE)

PostWithoutFile == \E user \in Uploaders : post(user, NoBody, FALSE)

DeleteRequest ==
  \E user \in Users, photoId \in PhotoIds : delete(user, photoId)

\* PUT by the owner of the photo, an uploader
PutRequest ==
  \E p \in Photo, body \in Bodies(KnownAirportInputs) :
    p.user_id \in Uploaders /\ put(p.user_id, p.id, body)

\* the bodies of a PUT that names a photo that is not the caller's: no
\* change, and a new airport
ForeignBodies == {NoBody, MkBody("n1", undefined, 0, NewAirport)}

\* PUT naming a photo that is not the caller's, or no photo
PutForeign ==
  \E user \in Users, photoId \in PhotoIds, body \in ForeignBodies :
    /\ fetchPhoto(Photo, photoId, user) = {}
    /\ put(user, photoId, body)

Next ==
  \/ PostRequest
  \/ PostWithoutFile
  \/ DeleteRequest
  \/ PutRequest
  \/ PutForeign

Spec == Init /\ [][Next]_vars

\* the life of one photo: it is created, updated by its owner any number of
\* times and deleted, every request succeeding, while nothing else happens
CreateOnePhoto ==
  /\ nextPhoto = 3
  /\ PostRequest
  /\ res'.status = 201

UpdateThatPhoto ==
  /\ \E p \in Photo, body \in Bodies(KnownAirportInputs) :
       p.id = 3 /\ put(p.user_id, p.id, body)
  /\ res'.status = 200

DeleteThatPhoto ==
  /\ \E p \in Photo : p.id = 3 /\ delete(p.user_id, p.id)
  /\ res'.status = 200

NextOnePhoto == CreateOnePhoto \/ UpdateThatPhoto \/ DeleteThatPhoto

SpecOnePhoto == Init /\ [][NextOnePhoto]_vars

\* -------------------------------------------------------------- claims
hasRh(RH, ref) == \E r \in RH : r.uuid_rh = ref
hasSa(SA, ref) == \E a \in SA : a.uuid = ref
PhotosOn(P, ref) == {p \in P : p.uuid_rh = ref}
RowsOn(RH, ref) == {r \in RH : r.uuid_sa = ref}
Succeeded == res.status \in {200, 201}

\* C1 (I1): every Photo whose RegistrationHistory reference is set points to
\* a RegistrationHistory row that exists.
I1_PhotoReferencesExistingRh ==
  \A p \in Photo :
    p.uuid_rh # 0 => hasRh(RegistrationHistory, p.uuid_rh)

\* C2 (I2): every RegistrationHistory row references a SpecificAircraft row
\* that exists, also after Cleanup ran on a row that shares its airframe.
I2_RhReferencesExistingSa ==
  \A r \in RegistrationHistory : hasSa(SpecificAircraft, r.uuid_sa)

\* Cleanup has deleted one of the two rows of the shared airframe, and the
\* other row, which a photo references, still has the airframe
I2_Witness ==
  /\ last.op \in {"delete", "put"} /\ Succeeded
  /\ last.old \in {1, 2} /\ ~hasRh(RegistrationHistory, last.old)
  /\ \E r \in RegistrationHistory :
       /\ r.uuid_rh \in {1, 2} /\ r.uuid_sa = 1
       /\ PhotosOn(Photo, r.uuid_rh) # {}
       /\ hasSa(SpecificAircraft, r.uuid_sa)

\* C3 (I3): after every request, no RegistrationHistory row is left without
\* a Photo row that references it.
I3_NoUnreferencedRh ==
  \A r \in RegistrationHistory : PhotosOn(Photo, r.uuid_rh) # {}

\* a delete or a re-point took the last Photo from a RegistrationHistory
\* row, and the row is gone
I3_Witness ==
  /\ last.op \in {"delete", "put"} /\ Succeeded
  /\ last.old # 0 /\ last.old <= MaxRh
  /\ PhotosOn(Photo, last.old) = {}
  /\ ~hasRh(RegistrationHistory, last.old)

\* C4 (I4): after every request, no SpecificAircraft row is left without a
\* RegistrationHistory row that references it.
I4_NoUnreferencedSa ==
  \A a \in SpecificAircraft : RowsOn(RegistrationHistory, a.uuid) # {}

\* C5 (P1): after a photo was created, updated and deleted, every request
\* succeeding, none of the RegistrationHistory and SpecificAircraft rows
\* created on the way (identifiers from 3) is left unreferenced by a photo.
P1_CreatedRowsCollected ==
  (last.op = "delete" /\ Succeeded) =>
    /\ \A r \in RegistrationHistory :
         r.uuid_rh >= 3 => PhotosOn(Photo, r.uuid_rh) # {}
    /\ \A a \in SpecificAircraft :
         a.uuid >= 3 =>
           \E r \in RowsOn(RegistrationHistory, a.uuid) :
             PhotosOn(Photo, r.uuid_rh) # {}

\* the photo was created with a new registration, given another new one by
\* an update, and deleted: both pairs of rows were issued and are gone
P1_Witness ==
  /\ last.op = "delete" /\ Succeeded
  /\ nextRh = 5 /\ nextSa = 5
  /\ \A r \in RegistrationHistory : r.uuid_rh < 3
  /\ \A a \in SpecificAircraft : a.uuid < 3

\* the step inserted exactly one SpecificAircraft row, one
\* RegistrationHistory row referencing it and one Photo row referencing that
FreshPair ==
  \E a \in SpecificAircraft' \ SpecificAircraft,
     r \in RegistrationHistory' \ RegistrationHistory,
     p \in Photo' \ Photo :
    /\ SpecificAircraft' = SpecificAircraft \cup {a}
    /\ RegistrationHistory' = RegistrationHistory \cup {r}
    /\ Photo' = Photo \cup {p}
    /\ ~hasSa(SpecificAircraft, a.uuid)
    /\ ~hasRh(RegistrationHistory, r.uuid_rh)
    /\ r.uuid_sa = a.uuid
    /\ p.uuid_rh = r.uuid_rh

\* the step is the handling of a POST with this body
PostOf(body, file) == \E user \in Users : post(user, body, file)

\* C6 (P2) as stated: every successful POST with aircraft_type_id set inserts
\* a fresh SpecificAircraft/RegistrationHistory pair and a Photo referencing
\* it, whatever other fields the request carries.
P2_FreshPairAlways ==
  [][(last'.op = "post" /\ res'.status = 201) =>
       \A body \in Bodies(KnownAirportInputs) :
         (Truthy(body.aircraft_type_id) /\ PostOf(body, TRUE)) =>
           FreshPair]_vars

\* C6 (P2) amended: every successful POST with aircraft_type_id set and
\* without an explicit uuid_rh inserts a fresh pair and a Photo referencing
\* it, also when a row with the same registration exists.
P2_FreshPairWithoutUuidRh ==
  [][(last'.op = "post" /\ res'.status = 201) =>
       \A body \in Bodies(KnownAirportInputs) :
         (/\ Truthy(body.aircraft_type_id)
          /\ body.uuid_rh = 0
          /\ PostOf(body, TRUE)) =>
           FreshPair]_vars

\* a POST with aircraft_type_id created a second row for a registration
\* that was on file, on an airframe of its own
P2_Witness ==
  /\ last.op = "post" /\ res.status = 201 /\ last.branch = "insert"
  /\ \E r1, r2 \in RegistrationHistory :
       /\ r1.uuid_rh < r2.uuid_rh
       /\ r1.registration = r2.registration
       /\ r1.uuid_sa # r2.uuid_sa
       /\ r2.uuid_rh = last.new
       /\ \E p \in Photo : p.id = nextPhoto - 1 /\ p.uuid_rh = r2.uuid_rh

\* the step inserted no SpecificAircraft and no RegistrationHistory row
NoRowInserted ==
  /\ SpecificAircraft' \subseteq SpecificAircraft
  /\ RegistrationHistory' \subseteq RegistrationHistory

\* the rows on file whose registration is the uppercased text
Matching(text) ==
  {r \in RegistrationHistory : r.registration = toUpperCase(text)}

\* the step inserted one Photo, which references one of the rows
PhotoOn(rows) ==
  \E p \in Photo' \ Photo :
    /\ Photo' = Photo \cup {p}
    /\ \E r \in rows : r.uuid_rh = p.uuid_rh

\* the POST carries an image and registration text and passes the airport
\* step
LookupPost(body, file) ==
  /\ file
  /\ body.registration # undefined
  /\ body.airport_code = "other" =>
       /\ ~airportFieldsMissing(body)
       /\ toUpperCase(body.airport_icao_code) \notin Airport

\* C7 (P3) as stated: a POST without aircraft_type_id inserts no
\* SpecificAircraft or RegistrationHistory row; without a row matching its
\* registration it fails with 404 and inserts no Photo, with one the new
\* Photo references a row on file.
P3_LookupOnlyAlways ==
  [][last'.op = "post" =>
       \A body \in Bodies(KnownAirportInputs), file \in BOOLEAN :
         (~Truthy(body.aircraft_type_id) /\ PostOf(body, file)) =>
           /\ NoRowInserted
           /\ LookupPost(body, file) =>
                IF Matching(body.registration) = {}
                THEN res'.status = 404 /\ Photo' = Photo
                ELSE PhotoOn(RegistrationHistory)]_vars

\* C7 (P3) amended: a POST without aircraft_type_id inserts no
\* SpecificAircraft or RegistrationHistory row; if it carries no explicit
\* uuid_rh either, then without a row matching its registration it fails
\* with 404 and inserts no Photo, and with one the new Photo references a
\* row on file that has this registration.
P3_LookupOnly ==
  [][last'.op = "post" =>
       \A body \in Bodies(KnownAirportInputs), file \in BOOLEAN :
         (~Truthy(body.aircraft_type_id) /\ PostOf(body, file)) =>
           /\ NoRowInserted
           /\ (LookupPost(body, file) /\ body.uuid_rh = 0) =>
                IF Matching(body.registration) = {}
                THEN res'.status = 404 /\ Photo' = Photo
                ELSE PhotoOn(Matching(body.registration))]_vars

\* a lookup failed with 404 although rows of another registration exist
P3_Witness ==
  /\ last.op = "post" /\ res.status = 404 /\ last.branch = "lookup"
  /\ RegistrationHistory # {}
  /\ Photo # {}

\* C8 (P4): when a PUT re-points a photo from row A, which only this photo
\* referenced, to another row B on file, then A is gone afterwards, A's
\* SpecificAircraft is gone exactly if no other row referenced it, and B and
\* B's SpecificAircraft are as they were.
P4_RepointCollectsOld ==
  [][(last'.op = "put" /\ res'.status = 200) =>
       \A p \in Photo \ Photo', q \in Photo' \ Photo,
          A, B \in RegistrationHistory :
         (/\ q.id = p.id
          /\ A.uuid_rh = p.uuid_rh /\ B.uuid_rh = q.uuid_rh
          /\ A.uuid_rh # B.uuid_rh
          /\ PhotosOn(Photo, A.uuid_rh) = {p})
         =>
         /\ ~hasRh(RegistrationHistory', A.uuid_rh)
         /\ ~hasSa(SpecificAircraft', A.uuid_sa)
              <=> RowsOn(RegistrationHistory, A.uuid_sa) = {A}
         /\ B \in RegistrationHistory'
         /\ \E a \in SpecificAircraft :
              a.uuid = B.uuid_sa /\ a \in SpecificAircraft']_vars

\* the photo that alone referenced one row of the shared airframe was
\* re-pointed to the other: the row is gone, the airframe is still there
P4_Witness ==
  /\ last.op = "put" /\ res.status = 200 /\ last.branch = "given"
  /\ last.old \in {1, 2} /\ last.new \in {1, 2}
  /\ last.old # last.new
  /\ PhotosOn(Photo, last.new) # {}
  /\ ~hasRh(RegistrationHistory, last.old)
  /\ hasRh(RegistrationHistory, last.new)
  /\ hasSa(SpecificAircraft, 1)

\* C9 (P5): a DELETE by the owner of the photo succeeds and removes the
\* Photo row; a DELETE naming a photo of another user is answered 404 and
\* deletes no Photo, RegistrationHistory or SpecificAircraft row and sends
\* no delete to the media store.
P5_DeleteOwnOnly ==
  [][last'.op = "delete" =>
       \A user \in Users, p \in Photo :
         delete(user, p.id) =>
           IF p.user_id = user
           THEN res'.status = 200 /\ p \notin Photo'
           ELSE /\ res'.status = 404
                /\ UNCHANGED <<Photo, RegistrationHistory, SpecificAircraft,
                               S3, s3Deletes>>]_vars

\* a DELETE naming the photo of another user was answered 404
P5_Witness ==
  /\ last.op = "delete" /\ res.status = 404
  /\ last.exists /\ ~last.found

\* C10: when two or more photos reference a RegistrationHistory row, a
\* DELETE of one of them or a PUT that re-points one of them away leaves
\* the row and its SpecificAircraft row in place and unchanged.
SharedRhKept ==
  [][(last'.op \in {"delete", "put"} /\ res'.status = 200) =>
       \A p \in Photo \ Photo', r \in RegistrationHistory :
         (/\ r.uuid_rh = p.uuid_rh
          /\ Cardinality(PhotosOn(Photo, r.uuid_rh)) >= 2
          /\ \A q \in Photo' : q.id = p.id => q.uuid_rh # p.uuid_rh)
         =>
         /\ r \in RegistrationHistory'
         /\ \E a \in SpecificAircraft :
              a.uuid = r.uuid_sa /\ a \in SpecificAircraft']_vars

\* one of several photos of a row was deleted or re-pointed away; the row,
\* still referenced by another photo, and its airframe are there
SharedRhKept_Witness ==
  /\ last.op \in {"delete", "put"} /\ res.status = 200
  /\ last.old # 0 /\ last.new # last.old
  /\ \E r \in RegistrationHistory, q \in Photo :
       /\ r.uuid_rh = last.old
       /\ q.uuid_rh = last.old
       /\ hasSa(SpecificAircraft, r.uuid_sa)

\* the photos with this id that belong to this user
OwnedBy(user, photoId) ==
  {p \in Photo : p.id = photoId /\ p.user_id = user}

\* the store and the media store are as they were
NothingChanged ==
  UNCHANGED <<Photo, RegistrationHistory, SpecificAircraft, Airport, S3,
              s3Deletes>>

\* C11: a DELETE or a PUT that names a photo id which is not a photo of the
\* caller gets one and the same response, whether a photo with this id
\* exists or not, and leaves the store unchanged, the Airport table
\* included when the PUT carries airport_code "other".
NoExistenceLeak ==
  [][last'.op \in {"delete", "put"} =>
       \A user \in Users, photoId \in PhotoIds :
         OwnedBy(user, photoId) = {} =>
           /\ delete(user, photoId) =>
                /\ res' = [status |-> 404,
                           error |-> "Photo not found or access denied"]
                /\ NothingChanged
           /\ \A body \in ForeignBodies :
                put(user, photoId, body) =>
                  /\ res' = [status |-> 404,
                             error |-> "Photo not found or unauthorized"]
                  /\ NothingChanged]_vars

\* a PUT named the photo of another user and was answered 404; the airport
\* its body may have carried is not in the table
NoExistenceLeak_Witness ==
  /\ last.op = "put" /\ res.status = 404
  /\ last.exists /\ ~last.found
  /\ "KAAA" \notin Airport

\* C12: a PUT by the owner with registration text, without aircraft_type_id
\* and uuid_rh, whose text matches no RegistrationHistory row, fails with
\* 404 and leaves the Photo row unchanged.
UpdateLookupNotFound ==
  [][(last'.op = "put" /\ last'.branch = "lookup") =>
       \A p \in Photo, body \in Bodies({ListedAirport}) :
         (/\ put(p.user_id, p.id, body)
          /\ Truthy(body.registration)
          /\ ~Truthy(body.aircraft_type_id)
          /\ body.uuid_rh = 0
          /\ Matching(body.registration) = {})
         => (res'.status = 404 /\ Photo' = Photo)]_vars

\* ------------------------------------------------- airport resolution
\* POST / and PUT /:id by the owner with every airport part
AirportBodies(airports) ==
  { MkBody("n1", t, 0, a) : t \in AircraftTypeInputs, a \in airports }

PostAirport ==
  \E user \in Uploaders, body \in AirportBodies(FormAirportInputs) :
    post(user, body, TRUE)

PutAirport ==
  \E p \in Photo, body \in AirportBodies(JsonAirportInputs) :
    p.user_id \in Uploaders /\ put(p.user_id, p.id, body)

NextAirport == PostAirport \/ PutAirport

SpecAirport == Init /\ [][NextAirport]_vars

\* the client did not supply the field
Absent(v) == v \in {undefined, ""}

AirportFieldAbsent(body) ==
  \/ Absent(body.airport_icao_code)
  \/ Absent(body.airport_name)
  \/ Absent(body.airport_latitude)
  \/ Absent(body.airport_longitude)

\* the step answers 400 exactly if a field is absent, and then changes no
\* table
ValidatedAirport(body) ==
  /\ res'.status = 400 <=> AirportFieldAbsent(body)
  /\ res'.status = 400 =>
       UNCHANGED <<Airport, SpecificAircraft, RegistrationHistory, Photo>>

\* C13: a POST with an image and a PUT by the owner that carry airport_code
\* "other" are answered 400 exactly if one of ICAO code, name, latitude and
\* longitude is absent, a latitude 0 counting as present, and then no
\* Airport, SpecificAircraft, RegistrationHistory or Photo row changes.
AirportValidation ==
  [][last'.op \in {"post", "put"} =>
       /\ \A user \in Users, body \in AirportBodies(FormAirportInputs) :
            (body.airport_code = "other" /\ post(user, body, TRUE)) =>
              ValidatedAirport(body)
       /\ \A p \in Photo, body \in AirportBodies(JsonAirportInputs) :
            (body.airport_code = "other" /\ put(p.user_id, p.id, body)) =>
              ValidatedAirport(body)]_vars

\* the body names, with all details, an airport whose code is in the table
DuplicateAirport(body) ==
  /\ body.airport_code = "other"
  /\ ~AirportFieldAbsent(body) /\ body.airport_latitude # NumberZero
  /\ toUpperCase(body.airport_icao_code) \in Airport

\* the step fails and inserts or changes no Photo, SpecificAircraft or
\* RegistrationHistory row
RejectedDuplicate ==
  /\ res'.status >= 400
  /\ Photo' = Photo
  /\ NoRowInserted

Roles == {"user", "admin"}        \* req.user.type

\* the guard of POST /api/aircraft-types and of POST /api/airports
requireAnyone(type) == TRUE
requireAdmin(type) == type = "admin"
requireAdminOfAirports(type) == type = "admin"

Logged(op) == last' = [NoRequest EXCEPT !.op = op]

AircraftTypeBodies ==
  [icao_type : {undefined, "c172", "b738"},
   manufacturer : {undefined, "Boeing"}, type : {undefined, "737"}]

\* POST /api/aircraft-types
postAircraftType(role, body) ==
  LET icao_type == toUpperCase(body.icao_type)
  IN
  /\ Logged("aircraftType")
  /\ UNCHANGED <<store, S3, ids, s3Deletes, User, handlers>>
  /\ IF ~requireAdmin(role)
     THEN /\ Respond(403, "Access denied. Admins only.")
          /\ UNCHANGED AircraftType
     ELSE IF ~Truthy(body.icao_type) \/ ~Truthy(body.manufacturer)
               \/ ~Truthy(body.type)
     THEN /\ Respond(400, "ICAO Type, Manufacturer, and Type are required")
          /\ UNCHANGED AircraftType
     ELSE IF \E row \in AircraftType : row.icao_type = icao_type
     THEN /\ Respond(409, "Aircraft Type with this ICAO Type already exists.")
          /\ UNCHANGED AircraftType
     ELSE /\ AircraftType' =
               AircraftType \cup {[icao_type |-> icao_type, by |-> role]}
          /\ Respond(201, "")

AdminAirportBodies ==
  [icao_code : {undefined, "ksfo", "kaaa"}, name : {undefined, "Alpha"}]

\* POST /api/airports
postAirport(role, body) ==
  LET inserted == insertAirport(Airport, toUpperCase(body.icao_code))
  IN
  /\ Logged("airport")
  /\ UNCHANGED <<Photo, RegistrationHistory, SpecificAircraft, S3, ids,
                 s3Deletes, aside>>
  /\ IF ~requireAdminOfAirports(role)
     THEN /\ Respond(403, "Access denied. Admins only.")
          /\ UNCHANGED Airport
     ELSE IF ~Truthy(body.icao_code) \/ ~Truthy(body.name)
     THEN /\ Respond(400, "ICAO code and Name are required")
          /\ UNCHANGED Airport
     ELSE IF inserted.error = "23505"
     THEN /\ Respond(409, "Airport with this ICAO code already exists.")
          /\ UNCHANGED Airport
     ELSE /\ Airport' = inserted.rows
          /\ Respond(201, "")

RegisterBodies ==
  [username : {undefined, "alice", "bob"}, password : {undefined, "pw"}]

\* POST /api/auth/register; User.username is unique
register(body) ==
  /\ Logged("register")
  /\ UNCHANGED <<store, S3, ids, s3Deletes, AircraftType, handlers>>
  /\ IF ~Truthy(body.username) \/ ~Truthy(body.password)
     THEN /\ Respond(400, "Username and password required")
          /\ UNCHANGED User
     ELSE IF body.username \in User
     THEN /\ Respond(500, "duplicate key value")
          /\ UNCHANGED User
     ELSE /\ User' = User \cup {body.username}
          /\ Respond(201, "User created successfully")

PostAircraftType ==
  \E role \in Roles, body \in AircraftTypeBodies :
    postAircraftType(role, body)

PostAirportByAdmin ==
  \E role \in Roles, body \in AdminAirportBodies : postAirport(role, body)

Register == \E body \in RegisterBodies : register(body)

\* the photo requests of the uploader with a registration: a POST with a
\* listed airport or the details of one in the table, a PUT with a listed
\* airport
OnFileAirportInputs ==
  {a \in KnownAirportInputs : ~airportFieldsMissing(a) \/ a = ListedAirport}

PostKnown ==
  \E user \in Uploaders, body \in AirportBodies(OnFileAirportInputs) :
    post(user, body, TRUE)

PutKnown ==
  \E p \in Photo, body \in AirportBodies({ListedAirport}) :
    p.user_id \in Uploaders /\ put(p.user_id, p.id, body)

DeleteOwn == \E p \in Photo : delete(p.user_id, p.id)

\* the reference-data routes beside the photo routes
NextReference ==
  \/ PostAircraftType
  \/ PostAirportByAdmin
  \/ PostKnown
  \/ PutKnown
  \/ DeleteOwn

SpecReference == Init /\ [][NextReference]_vars

\* the routes that insert into a table with a unique column
NextUnique ==
  \/ PostAircraftType
  \/ PostAirportByAdmin
  \/ Register
  \/ PostKnown

SpecUnique == Init /\ [][NextUnique]_vars

\* the step answers 409 and changes no table
Conflict ==
  /\ res'.status = 409
  /\ UNCHANGED <<Photo, RegistrationHistory, SpecificAircraft, Airport,
                 AircraftType, User>>

\* C16: every insert that violates a uniqueness constraint is answered 409
\* and leaves the store unchanged: an AircraftType or an Airport with a
\* code on file posted by an administrator, a POST of a photo that names,
\* with all details, an airport whose code is on file, and a registration
\* with a username on file.
UniqueConflictIs409 ==
  [][/\ last'.op = "aircraftType" =>
          \A body \in AircraftTypeBodies :
            (/\ postAircraftType("admin", body)
             /\ ~ \E f \in DOMAIN body : Absent(body[f])
             /\ \E row \in AircraftType :
                  row.icao_type = toUpperCase(body.icao_type))
            => Conflict
     /\ last'.op = "airport" =>
          \A body \in AdminAirportBodies :
            (/\ postAirport("admin", body)
             /\ ~ \E f \in DOMAIN body : Absent(body[f])
             /\ toUpperCase(body.icao_code) \in Airport)
            => Conflict
     /\ last'.op = "post" =>
          \A user \in Users, body \in AirportBodies(OnFileAirportInputs) :
            (post(user, body, TRUE) /\ DuplicateAirport(body)) => Conflict
     /\ last'.op = "register" =>
          \A body \in RegisterBodies :
            (/\ register(body)
             /\ ~ \E f \in DOMAIN body : Absent(body[f])
             /\ body.username \in User)
            => Conflict]_vars

\* C17: a POST of an AircraftType or of an Airport to the reference-data
\* routes by a caller who is not an administrator is answered 403 and
\* inserts nothing; every AircraftType row was inserted by the request of
\* an administrator; the AircraftType table changes by nothing but the
\* insert of a row by POST /api/aircraft-types, so by no photo request.
AdminOnly ==
  /\ [](\A row \in AircraftType : row.by = "admin")
  /\ [][/\ last'.op = "aircraftType" =>
             \A role \in Roles \ {"admin"}, body \in AircraftTypeBodies :
               postAircraftType(role, body) =>
                 (res'.status = 403 /\ NothingChanged
                    /\ UNCHANGED <<AircraftType, User>>)
        /\ last'.op = "airport" =>
             \A role \in Roles \ {"admin"}, body \in AdminAirportBodies :
               postAirport(role, body) =>
                 (res'.status = 403 /\ NothingChanged
                    /\ UNCHANGED <<AircraftType, User>>)
        /\ AircraftType' # AircraftType =>
             /\ last'.op = "aircraftType"
             /\ \E row \in AircraftType' \ AircraftType :
                  AircraftType' = AircraftType \cup {row}]_vars

\* a caller who is not an administrator was answered 403 after an
\* administrator had added an AircraftType and the uploader a photo
AdminOnly_Witness ==
  /\ last.op = "aircraftType" /\ res.status = 403
  /\ \E row \in AircraftType : row.icao_type = "B738"
  /\ \E p \in Photo : p.id = 3

\* ===================================================== handlers, call by call
\* DELETE /:id and PUT /:id as the event loop runs them: every await of a
\* call to the relational store or the media store is one step, and the
\* steps of two requests interleave.  The response of a request is the
\* status in its locals.

\* what the steps read and write
World ==
  [Photo |-> Photo, RegistrationHistory |-> RegistrationHistory,
   SpecificAircraft |-> SpecificAircraft, Airport |-> Airport,
   S3 |-> S3, s3Deletes |-> s3Deletes,
   nextRh |-> nextRh, nextSa |-> nextSa, handlers |-> handlers]

With(s, h, l) == [s EXCEPT !.handlers[h] = l]

\* a call to the relational store returns {data, error}; ok: without error
Outcomes == BOOLEAN

\* the locals after a call to the relational store came back
called(l, ok) ==
  [l EXCEPT !.late = l.late \/ l.failed, !.failed = l.failed \/ ~ok]

\* res.status(status).json(...): the handler has finished
answer(l, status) == [l EXCEPT !.pc = "done", !.status = status]

\* the handler is invoked: req.params.id, req.user.id and req.body
arrive(s, h, op, user, photoId, body) ==
  With(s, h, [Idle EXCEPT !.pc = "fetch", !.op = op, !.user = user,
                          !.id = photoId, !.body = body])

\* PUT, "2. Handle Registration Change Logic": the call that comes next
resolved(l) ==
  LET new_uuid_rh == l.body.uuid_rh
      scenarioA == supplied(new_uuid_rh) /\ new_uuid_rh # l.old
      scenarioB == ~scenarioA /\ Truthy(l.body.registration)
                     /\ ~supplied(new_uuid_rh)
  IN  IF scenarioA
      THEN [l EXCEPT !.final = new_uuid_rh, !.pc = "update"]
      ELSE IF scenarioB /\ Truthy(l.body.aircraft_type_id)
      THEN [l EXCEPT !.pc = "saInsert"]
      ELSE IF scenarioB
      THEN [l EXCEPT !.pc = "rhLookup"]
      ELSE [l EXCEPT !.pc = "update"]

\* "1. Fetch photo" of DELETE, "1. Fetch current photo" of PUT and its
\* airport validation
fetchStep(s, h, ok) ==
  LET l       == called(s.handlers[h], ok)
      fetched == fetchPhoto(s.Photo, l.id, l.user)
      other   == l.body.airport_code = "other"
  IN  IF ~ok \/ fetched = {}
      THEN {With(s, h, answer(l, 404))}
      ELSE
      LET photo == CHOOSE p \in fetched : TRUE
          l1 == [l EXCEPT !.old = photo.uuid_rh, !.final = photo.uuid_rh,
                          !.image = photo.image_url,
                          !.airport = l.body.airport_code]
      IN  IF l.op = "delete"
          THEN {With(s, h, [l1 EXCEPT !.pc = "s3"])}
          ELSE IF other /\ airportFieldsMissing(l.body)
          THEN {With(s, h, answer(l1, 400))}
          ELSE IF other
          THEN {With(s, h, [l1 EXCEPT !.pc = "airport"])}
          ELSE {With(s, h, resolved(l1))}

\* a handler that gives up when the DeleteObjectCommand fails
s3StepFatal(s, h, ok) ==
  LET l == s.handlers[h]
  IN  {With([s EXCEPT !.s3Deletes = @ \cup {l.image},
                      !.S3 = IF ok THEN @ \ {l.image} ELSE @],
            h, IF ok THEN [l EXCEPT !.pc = "deletePhoto"]
               ELSE answer(l, 500))}

\* DELETE "2. Delete from S3": the command is sent; a failure is caught
s3Step(s, h, ok) ==
  LET l == s.handlers[h]
  IN  {With([s EXCEPT !.s3Deletes = @ \cup {l.image},
                      !.S3 = IF ok THEN @ \ {l.image} ELSE @],
            h, [l EXCEPT !.pc = "deletePhoto"])}

\* DELETE "3. Delete from Database"
deletePhotoStep(s, h, ok) ==
  LET l == called(s.handlers[h], ok)
  IN  IF ~ok
      THEN {With(s, h, answer(l, 500))}
      ELSE {With([s EXCEPT !.Photo = {p \in @ : p.id # l.id}], h,
                 IF l.old # 0 THEN [l EXCEPT !.pc = "photoCount"]
                 ELSE answer(l, 200))}

\* PUT "1b. Handle Airport Logic": the insert; a failure other than the
\* duplicate of the store's unique index ends the request
airportStep(s, h, ok) ==
  LET l        == called(s.handlers[h], ok)
      icao     == toUpperCase(l.body.airport_icao_code)
      inserted == insertAirport(s.Airport, icao)
  IN  IF ~ok
      THEN {With(s, h, answer(l, 500))}
      ELSE IF inserted.error \notin {"", toleratedAirportError}
      THEN {With(s, h, answer(l, 500))}
      ELSE {With([s EXCEPT !.Airport = inserted.rows], h,
                 resolved([l EXCEPT !.airport = icao]))}

\* PUT Scenario B, "Create Specific Aircraft"
saInsertStep(s, h, ok) ==
  LET l == called(s.handlers[h], ok)
  IN  IF ~ok
      THEN {With(s, h, answer(l, 500))}
      ELSE {With([s EXCEPT !.SpecificAircraft =
                             insertSpecificAircraft(
                               @, s.nextSa, l.body.aircraft_type_id),
                           !.nextSa = @ + 1],
                 h, [l EXCEPT !.saData = s.nextSa, !.pc = "rhInsert"])}

\* PUT Scenario B, "Create Registration History"
rhInsertStep(s, h, ok) ==
  LET l == called(s.handlers[h], ok)
  IN  IF ~ok
      THEN {With(s, h, answer(l, 500))}
      ELSE {With([s EXCEPT !.RegistrationHistory =
                             insertRegistrationHistory(
                               @, s.nextRh, l.saData,
                               toUpperCase(l.body.registration)),
                           !.nextRh = @ + 1],
                 h, [l EXCEPT !.final = s.nextRh, !.pc = "update"])}

\* PUT Scenario B, "Fallback lookup"
rhLookupStep(s, h, ok) ==
  LET l      == called(s.handlers[h], ok)
      rhData == rhLookup(s.RegistrationHistory,
                         toUpperCase(l.body.registration))
  IN  IF ok /\ rhData # {}
      THEN {With(s, h, [l EXCEPT !.final = found, !.pc = "update"]) :
              found \in rhData}
      ELSE {With(s, h, [l EXCEPT !.pc = "update"])}

\* PUT "3. Update Photo Record"
updateStep(s, h, ok) ==
  LET l == called(s.handlers[h], ok)
  IN  IF ~ok
      THEN {With(s, h, answer(l, 500))}
      ELSE {With([s EXCEPT !.Photo =
                    {IF p.id = l.id /\ p.user_id = l.user
                     THEN [p EXCEPT !.airport_code = l.airport,
                                    !.uuid_rh = l.final]
                     ELSE p : p \in @}],
                 h, IF l.final # l.old /\ l.old # 0
                    THEN [l EXCEPT !.pc = "photoCount"]
                    ELSE answer(l, 200))}

\* cleanup of DELETE and of PUT: the count of the photos on the old uuid_rh
photoCountStep(s, h, ok) ==
  LET l == called(s.handlers[h], ok)
      n == IF ok THEN photoCount(s.Photo, l.old) ELSE NoCount
  IN  {With(s, h, IF n = 0
                  THEN [l EXCEPT !.count = n, !.pc = "rhRead"]
                  ELSE answer([l EXCEPT !.count = n], 200))}

\* a handler that sends the delete for a row it has read only
afterReadOfRow(rhData) == IF rhData = {} THEN "done" ELSE "rhDelete"

\* the delete is awaited whatever the read before it gave
afterRead(rhData) == "rhDelete"

\* cleanup: "get uuid_sa before deleting RH"
rhReadStep(s, h, ok) ==
  LET l      == called(s.handlers[h], ok)
      rhData == IF ok
                THEN {r \in s.RegistrationHistory : r.uuid_rh = l.old}
                ELSE {}
      l1     == [l EXCEPT !.sa = IF rhData = {} THEN 0
                                 ELSE (CHOOSE r \in rhData : TRUE).uuid_sa]
  IN  {With(s, h, IF afterRead(rhData) = "done" THEN answer(l1, 200)
                  ELSE [l1 EXCEPT !.pc = "rhDelete"])}

\* cleanup: the delete of the RegistrationHistory row
rhDeleteStep(s, h, ok) ==
  LET l == [called(s.handlers[h], ok) EXCEPT !.issued = TRUE]
  IN  {With([s EXCEPT !.RegistrationHistory =
                        IF ok THEN {r \in @ : r.uuid_rh # l.old} ELSE @],
            h, IF l.sa # 0 THEN [l EXCEPT !.pc = "rhCount"]
               ELSE answer(l, 200))}

\* cleanup: the count of the rows left on the airframe
rhCountStep(s, h, ok) ==
  LET l == called(s.handlers[h], ok)
      n == IF ok THEN rhCount(s.RegistrationHistory, l.sa) ELSE NoCount
  IN  {With(s, h, IF n = 0 THEN [l EXCEPT !.pc = "saDelete"]
                  ELSE answer(l, 200))}

\* cleanup: the delete of the SpecificAircraft row
saDeleteStep(s, h, ok) ==
  LET l == called(s.handlers[h], ok)
  IN  {With([s EXCEPT !.SpecificAircraft =
                        IF ok THEN {a \in @ : a.uuid # l.sa} ELSE @],
            h, answer(l, 200))}

\* the worlds after the next await of handler h returned
step(s, h, ok) ==
  LET pc == s.handlers[h].pc
  IN  CASE pc = "fetch"       -> fetchStep(s, h, ok)
        [] pc = "s3"          -> s3Step(s, h, ok)
        [] pc = "deletePhoto" -> deletePhotoStep(s, h, ok)
        [] pc = "airport"     -> airportStep(s, h, ok)
        [] pc = "saInsert"    -> saInsertStep(s, h, ok)
        [] pc = "rhInsert"    -> rhInsertStep(s, h, ok)
        [] pc = "rhLookup"    -> rhLookupStep(s, h, ok)
        [] pc = "update"      -> updateStep(s, h, ok)
        [] pc = "photoCount"  -> photoCountStep(s, h, ok)
        [] pc = "rhRead"      -> rhReadStep(s, h, ok)
        [] pc = "rhDelete"    -> rhDeleteStep(s, h, ok)
        [] pc = "rhCount"     -> rhCountStep(s, h, ok)
        [] pc = "saDelete"    -> saDeleteStep(s, h, ok)
        [] OTHER              -> {}

\* the world n replaces the present one
Become(n) ==
  /\ Photo' = n.Photo
  /\ RegistrationHistory' = n.RegistrationHistory
  /\ SpecificAircraft' = n.SpecificAircraft
  /\ Airport' = n.Airport
  /\ S3' = n.S3
  /\ s3Deletes' = n.s3Deletes
  /\ nextRh' = n.nextRh
  /\ nextSa' = n.nextSa
  /\ handlers' = n.handlers
  /\ UNCHANGED <<nextPhoto, nextKey, last, res, AircraftType, User>>

At(h, pc) == handlers[h].pc = pc

Fetch(h) ==
  At(h, "fetch") /\ \E ok \in Outcomes : \E n \in fetchStep(World, h, ok) :
                      Become(n)
S3Delete(h) ==
  At(h, "s3") /\ \E ok \in BOOLEAN : \E n \in s3Step(World, h, ok) : Become(n)
DeletePhoto(h) ==
  At(h, "deletePhoto")
    /\ \E ok \in Outcomes : \E n \in deletePhotoStep(World, h, ok) : Become(n)
AirportInsert(h) ==
  At(h, "airport")
    /\ \E ok \in Outcomes : \E n \in airportStep(World, h, ok) : Become(n)
SaInsert(h) ==
  At(h, "saInsert") /\ nextSa <= MaxSa
    /\ \E ok \in Outcomes : \E n \in saInsertStep(World, h, ok) : Become(n)
RhInsert(h) ==
  At(h, "rhInsert") /\ nextRh <= MaxRh
    /\ \E ok \in Outcomes : \E n \in rhInsertStep(World, h, ok) : Become(n)
RhLookup(h) ==
  At(h, "rhLookup")
    /\ \E ok \in Outcomes : \E n \in rhLookupStep(World, h, ok) : Become(n)
Update(h) ==
  At(h, "update")
    /\ \E ok \in Outcomes : \E n \in updateStep(World, h, ok) : Become(n)
PhotoCount(h) ==
  At(h, "photoCount")
    /\ \E ok \in Outcomes : \E n \in photoCountStep(World, h, ok) : Become(n)
RhRead(h) ==
  At(h, "rhRead")
    /\ \E ok \in Outcomes : \E n \in rhReadStep(World, h, ok) : Become(n)
RhDelete(h) ==
  At(h, "rhDelete")
    /\ \E ok \in Outcomes : \E n \in rhDeleteStep(World, h, ok) : Become(n)
RhCount(h) ==
  At(h, "rhCount")
    /\ \E ok \in Outcomes : \E n \in rhCountStep(World, h, ok) : Become(n)
SaDelete(h) ==
  At(h, "saDelete")
    /\ \E ok \in Outcomes : \E n \in saDeleteStep(World, h, ok) : Become(n)

\* the next await of some request returns
Await ==
  \E h \in Handlers :
    \/ Fetch(h)
    \/ S3Delete(h)
    \/ DeletePhoto(h)
    \/ AirportInsert(h)
    \/ SaInsert(h)
    \/ RhInsert(h)
    \/ RhLookup(h)
    \/ Update(h)
    \/ PhotoCount(h)
    \/ RhRead(h)
    \/ RhDelete(h)
    \/ RhCount(h)
    \/ SaDelete(h)

\* ------------------------------------------- an update races with a delete
\* two photos on the registration N1 of one airframe, a third photo on the
\* registration N2 of another airframe
RaceStore ==
  /\ SpecificAircraft = {[uuid |-> 1, icao_type |-> "C172"],
                         [uuid |-> 2, icao_type |-> "C172"]}
  /\ RegistrationHistory =
       {[uuid_rh |-> 1, uuid_sa |-> 1, registration |-> "N1",
         is_current |-> TRUE],
        [uuid_rh |-> 2, uuid_sa |-> 2, registration |-> "N2",
         is_current |-> TRUE]}
  /\ Photo =
       {[id |-> 1, user_id |-> "u1", uuid_rh |-> 1, airport_code |-> "KSFO",
         image_url |-> 1],
        [id |-> 2, user_id |-> "u2", uuid_rh |-> 1, airport_code |-> "KSFO",
         image_url |-> 2],
        [id |-> 3, user_id |-> "u1", uuid_rh |-> 2, airport_code |-> "KSFO",
         image_url |-> 3]}
  /\ S3 = {1, 2, 3}
  /\ nextPhoto = 4 /\ nextRh = 3 /\ nextSa = 3 /\ nextKey = 4

RaceInit == RaceStore /\ ReferenceData

\* the bodies of the PUT: the uuid_rh of the other registration, its text
\* to look up, a registration to create, and a new airport alone
StepBodies ==
  { MkBody(undefined, undefined, r.uuid_rh, ListedAirport) :
      r \in {x \in RegistrationHistory : x.registration = "N2"} }
  \cup
  { MkBody("N2", undefined, 0, ListedAirport),
    MkBody("n1", "C172", 0, ListedAirport),
    MkBody(undefined, undefined, 0, NewAirport) }

\* PUT /:id by the owner of a photo arrives
UpdateArrives ==
  /\ At("h1", "idle")
  /\ \E p \in Photo, body \in StepBodies :
       /\ p.user_id \in Uploaders
       /\ Become(arrive(World, "h1", "put", p.user_id, p.id, body))

\* DELETE /:id by the owner of a photo arrives
DeleteArrives ==
  /\ At("h2", "idle")
  /\ \E p \in Photo :
       Become(arrive(World, "h2", "delete", p.user_id, p.id, NoBody))

NextSteps ==
  \/ UpdateArrives
  \/ DeleteArrives
  \/ Await

SpecSteps == RaceInit /\ [][NextSteps]_vars

\* C15: every store error short-circuits the handler: once a call of a
\* request to the relational store has failed, the request makes no other
\* call, and it ends with an error response, never with a success.
StoreErrorsShortCircuit ==
  \A h \in Handlers :
    /\ ~handlers[h].late
    /\ handlers[h].pc = "done" /\ handlers[h].failed
         => handlers[h].status >= 400

\* the update of h1 re-pointed a photo away from the registration of the
\* photo that the delete of h2 removed, and both have answered
RacedOver(ref) ==
  LET u == handlers["h1"]
      d == handlers["h2"]
  IN  /\ u.pc = "done" /\ d.pc = "done"
      /\ u.op = "put" /\ d.op = "delete"
      /\ u.id # d.id
      /\ u.old = ref /\ d.old = ref /\ u.final # ref

RhIds == 1 .. MaxRh

\* C19: double delete: with two photos on one RegistrationHistory, when an
\* update that re-points one of them away and a concurrent delete of the
\* other have both read a photo count of zero for it, both have issued the
\* delete of that RegistrationHistory; and there is such an interleaving.
DoubleDelete ==
  \A ref \in RhIds :
    RacedOver(ref) /\ handlers["h1"].count = 0 /\ handlers["h2"].count = 0
      => handlers["h1"].issued /\ handlers["h2"].issued

DoubleDelete_Witness ==
  \E ref \in RhIds :
    /\ RacedOver(ref)
    /\ handlers["h1"].count = 0 /\ handlers["h2"].count = 0
    /\ handlers["h1"].issued /\ handlers["h2"].issued
    /\ ~handlers["h1"].failed /\ ~handlers["h2"].failed

\* ------------------------------------------------- every interleaving
\* the worlds that the awaits of the requests under way lead to when no
\* call fails: all interleavings of their steps, from the worlds in seen
\* and frontier on
RECURSIVE Interleavings(_, _)
Interleavings(seen, frontier) ==
  IF frontier = {}
  THEN seen
  ELSE Interleavings(
         seen \cup frontier,
         (UNION {step(s, h, TRUE) : s \in frontier, h \in Handlers})
           \ (seen \cup frontier))

\* the present world with an update of photo p by its owner and a delete
\* of photo q by its owner under way
Racing(p, body, q) ==
  arrive(arrive(World, "h1", "put", p.user_id, p.id, body),
         "h2", "delete", q.user_id, q.id, NoBody)

\* in world s both requests have answered, the update has re-pointed its
\* photo away from ref, no photo is on ref and its row is still there
Skipped(s, ref) ==
  /\ \A h \in Handlers : s.handlers[h].pc = "done"
  /\ s.handlers["h1"].old = ref /\ s.handlers["h1"].final # ref
  /\ PhotosOn(s.Photo, ref) = {}
  /\ hasRh(s.RegistrationHistory, ref)

\* C20 as claimed: skipped cleanup is reachable: while no request is under
\* way and exactly two photos are on a RegistrationHistory, there is an
\* interleaving of an update re-pointing one of them away and a delete of
\* the other, no call failing, after which both have answered, no photo is
\* on it and the row still exists.
SkippedCleanupReachable ==
  (\A h \in Handlers : handlers[h].pc = "idle")
    => \A ref \in RhIds :
         Cardinality(PhotosOn(Photo, ref)) = 2
           => \E p \in PhotosOn(Photo, ref), body \in StepBodies :
                \E q \in PhotosOn(Photo, ref) \ {p} :
                  \E s \in Interleavings({}, {Racing(p, body, q)}) :
                    Skipped(s, ref)

\* C20: skipped cleanup is not reachable: when an update that re-pointed
\* one of the two photos away from a RegistrationHistory and a concurrent
\* delete of the other have both answered and no store call has failed,
\* the RegistrationHistory has no photo and has been deleted.
CleanupNotSkipped ==
  \A ref \in RhIds :
    /\ RacedOver(ref)
    /\ ~handlers["h1"].failed /\ ~handlers["h2"].failed
    => PhotosOn(Photo, ref) = {} /\ ~hasRh(RegistrationHistory, ref)

CleanupNotSkipped_Witness ==
  \E ref \in RhIds :
    /\ RacedOver(ref)
    /\ ~handlers["h1"].failed /\ ~handlers["h2"].failed
    /\ handlers["h1"].status = 200 /\ handlers["h2"].status = 200
    /\ PhotosOn(Photo, ref) = {} /\ ~hasRh(RegistrationHistory, ref)
    /\ handlers["h1"].count = 1 /\ handlers["h2"].count = 0

\* ------------------------------------------- requests after a failed cleanup
\* no request is under way
Quiet == \A h \in Handlers : handlers[h].pc \in {"idle", "done"}

\* one request after the other, each in the slot of the one before: a
\* DELETE by any user for any id, a PUT by the owner of a photo
DeleteAgain ==
  /\ Quiet
  /\ \E user \in Users, photoId \in PhotoIds :
       Become(arrive(World, "h1", "delete", user, photoId, NoBody))

UpdateAgain ==
  /\ Quiet
  /\ \E p \in Photo, body \in StepBodies :
       /\ p.user_id \in Uploaders
       /\ Become(arrive(World, "h1", "put", p.user_id, p.id, body))

NextHeal ==
  \/ DeleteAgain
  \/ UpdateAgain
  \/ Await

HealInit == SharedAirframeStore /\ ReferenceData

\* every await returns, and clients go on sending deletes and updates
SpecHeal ==
  /\ HealInit
  /\ [][NextHeal]_vars
  /\ WF_vars(Await)
  /\ SF_vars(DeleteAgain)
  /\ SF_vars(UpdateAgain)

SaIds == 1 .. MaxSa

\* a request whose cleanup of ref did not go through has answered
CleanupStopped(ref) ==
  \E h \in Handlers :
    /\ handlers[h].pc = "done" /\ handlers[h].failed
    /\ handlers[h].old = ref

\* ... and had read that ref belongs to airframe a
CleanupStoppedAt(a) ==
  \E h \in Handlers :
    /\ handlers[h].pc = "done" /\ handlers[h].failed
    /\ handlers[h].sa = a

\* C18 (RegistrationHistory): a row left with zero photos by a request
\* whose cleanup stopped is eventually deleted by the requests that follow
OrphanRhHeals ==
  \A ref \in RhIds :
    (Quiet /\ CleanupStopped(ref) /\ hasRh(RegistrationHistory, ref)
       /\ PhotosOn(Photo, ref) = {})
      ~> ~hasRh(RegistrationHistory, ref)

\* C18 (SpecificAircraft): a row left with zero RegistrationHistory rows
\* by a request whose cleanup stopped is eventually deleted
OrphanSaHeals ==
  \A a \in SaIds :
    (Quiet /\ CleanupStoppedAt(a) /\ hasSa(SpecificAircraft, a)
       /\ RowsOn(RegistrationHistory, a) = {})
      ~> ~hasSa(SpecificAircraft, a)

\* C18: self-healing: a RegistrationHistory row with zero photos or a
\* SpecificAircraft row with zero RegistrationHistory rows, left behind by
\* a delete or an update that stopped between its Photo mutation and the
\* end of its cleanup, is eventually deleted by the requests that follow.
SelfHealing == OrphanRhHeals /\ OrphanSaHeals

\* ================================================ explicit identifier
\* the bodies of the requests that carry a uuid_rh
ExplicitBodies ==
  { MkBody("n1", t, h, ListedAirport) :
      t \in AircraftTypeInputs, h \in UuidRhInputs }

\* the requests that carry a uuid_rh, beside the uploads that create a
\* registration and the deletes
ExplicitInputs == ExplicitBodies \cup {MkBody("n1", "C172", 0, ListedAirport)}

PostExplicit ==
  \E user \in Uploaders, body \in ExplicitInputs : post(user, body, TRUE)

PutExplicit ==
  \E p \in Photo, body \in ExplicitBodies :
    p.user_id \in Uploaders /\ put(p.user_id, p.id, body)

NextExplicit ==
  \/ PostExplicit
  \/ PutExplicit
  \/ DeleteOwn

SpecExplicit == Init /\ [][NextExplicit]_vars

\* C26: an explicit RegistrationHistory identifier skips resolution: a POST
\* or a PUT whose body carries uuid_rh inserts no SpecificAircraft and no
\* RegistrationHistory row and makes no lookup, whatever registration and
\* aircraft_type_id it carries; when it succeeds the Photo references the
\* identifier of the body; a PUT with the uuid_rh the photo has leaves the
\* reference as it is and runs no cleanup.
ExplicitSkipsResolution ==
  [][/\ last'.op = "post" =>
          \A body \in ExplicitBodies, user \in Uploaders :
            post(user, body, TRUE) =>
              /\ UNCHANGED <<RegistrationHistory, SpecificAircraft>>
              /\ last'.branch \notin {"insert", "lookup"}
              /\ res'.status = 201 =>
                   \E q \in Photo' \ Photo :
                     /\ Photo' = Photo \cup {q}
                     /\ q.uuid_rh = body.uuid_rh
     /\ last'.op = "put" =>
          \A p \in Photo :
            p.user_id \in Uploaders =>
              \A body \in ExplicitBodies :
                put(p.user_id, p.id, body) =>
                  /\ NoRowInserted
                  /\ last'.branch \notin {"insert", "lookup"}
                  /\ res'.status = 200 =>
                       \A q \in Photo' :
                         q.id = p.id => q.uuid_rh = body.uuid_rh
                  /\ body.uuid_rh = p.uuid_rh =>
                       UNCHANGED <<RegistrationHistory, SpecificAircraft>>
    ]_vars

\* a PUT carried the uuid_rh the photo has, with registration text and
\* aircraft_type_id: the photo alone references the row, which is there
ExplicitSkipsResolution_Witness ==
  /\ last.op = "put" /\ res.status = 200
  /\ last.old # 0 /\ last.new = last.old /\ last.branch = "none"
  /\ Cardinality(PhotosOn(Photo, last.old)) = 1
  /\ hasRh(RegistrationHistory, last.old)
  /\ nextRh = 3 /\ nextSa = 3

\* ================================================= cleanup run again
\* the Photo table as it is, and as a DELETE or a re-pointing PUT leaves it
\* for the cleanup that follows: without one of its rows
PhotoTables == {Photo} \cup {Photo \ {p} : p \in Photo}

\* C27: Cleanup is idempotent: for every reference, running it a second
\* time right after the first leaves the tables as the first run left
\* them; and for a reference that has no RegistrationHistory row it deletes
\* nothing, no SpecificAircraft row in particular.
CleanupIdempotent ==
  \A P \in PhotoTables, ref \in 1 .. MaxRh + 1 :
    LET once  == Cleanup(P, RegistrationHistory, SpecificAircraft, ref)
        twice == Cleanup(P, once.RH, once.SA, ref)
    IN  /\ twice = once
        /\ ~hasRh(RegistrationHistory, ref) =>
             /\ once.RH = RegistrationHistory
             /\ once.SA = SpecificAircraft

\* the cleanup of a request has deleted the row of its reference, and a
\* SpecificAircraft without rows is on file that a second run would meet
CleanupIdempotent_Witness ==
  /\ last.op \in {"delete", "put"} /\ res.status = 200
  /\ last.old # 0 /\ last.new # last.old
  /\ ~hasRh(RegistrationHistory, last.old)
  /\ PhotosOn(Photo, last.old) = {}
  /\ \E a \in SpecificAircraft : RowsOn(RegistrationHistory, a.uuid) = {}

\* ================================================ which row a lookup gives
\* the row of a non-empty set that was created last (identifiers are issued
\* in the order of creation)
MostRecent(rows) ==
  CHOOSE r \in rows : \A x \in rows : x.uuid_rh <= r.uuid_rh

\* C23: when several RegistrationHistory rows carry the registration of a
\* POST or a PUT that takes the lookup branch (registration text, no
\* aircraft_type_id, no uuid_rh), the Photo is given the most recently
\* created of the matching rows, whatever the set of matching rows.
LookupMostRecent ==
  [][last'.branch = "lookup" =>
       \A body \in Bodies(KnownAirportInputs) :
         (/\ body.uuid_rh = 0
          /\ ~Truthy(body.aircraft_type_id)
          /\ Truthy(body.registration)
          /\ Matching(body.registration) # {})
         =>
         LET latest == MostRecent(Matching(body.registration)).uuid_rh
         IN  /\ (PostOf(body, TRUE) /\ res'.status = 201) =>
                  \A q \in Photo' \ Photo : q.uuid_rh = latest
             /\ \A p \in Photo :
                  (/\ p.user_id \in Uploaders
                   /\ put(p.user_id, p.id, body)
                   /\ res'.status = 200)
                  => \A q \in Photo' : q.id = p.id => q.uuid_rh = latest
                  ]_vars

\* ================================================ registration and case
\* requests that name a registration in lower and in upper case, without
\* uuid_rh: new registrations are typed in lower case
CaseBodies ==
  { MkBody(r, "C172", 0, ListedAirport) : r \in {"n1", "n2"} }
  \cup
  { MkBody(r, undefined, 0, ListedAirport) :
      r \in {undefined, "n1", "N1", "n2"} }

PostCase ==
  \E user \in Uploaders, body \in CaseBodies : post(user, body, TRUE)

PutCase ==
  \E p \in Photo, body \in CaseBodies :
    p.user_id \in Uploaders /\ put(p.user_id, p.id, body)

NextCase ==
  \/ PostCase
  \/ PutCase
  \/ DeleteOwn

SpecCase == Init /\ [][NextCase]_vars

\* a registration text without its letter case
Folded(text) ==
  CASE text \in {"n1", "N1"} -> "N1"
    [] text \in {"n2", "N2"} -> "N2"
    [] OTHER -> text

\* the rows on file with this registration, letter case apart
SameMark(text) ==
  {r \in RegistrationHistory : Folded(r.registration) = Folded(text)}

\* C28: registration matching is case-insensitive through uppercasing: a
\* row inserted by a POST or a PUT stores the registration of the body
\* uppercased; a POST or a PUT that looks a registration up (no
\* aircraft_type_id, no uuid_rh) while a row with this registration in any
\* letter case is on file gives the Photo such a row; and no lookup gives
\* the Photo a row with another registration.
CaseInsensitive ==
  [][last'.op \in {"post", "put"} =>
       \A body \in CaseBodies :
         /\ (PostOf(body, TRUE)
               \/ \E p \in Photo : put(p.user_id, p.id, body))
              => \A r \in RegistrationHistory' \ RegistrationHistory :
                   /\ r.registration = Folded(body.registration)
                   /\ r.registration \notin {"n1", "n2"}
         /\ (~Truthy(body.aircraft_type_id) /\ Truthy(body.registration))
              =>
              /\ PostOf(body, TRUE) =>
                   IF SameMark(body.registration) = {}
                   THEN Photo' = Photo
                   ELSE /\ res'.status = 201
                        /\ PhotoOn(SameMark(body.registration))
              /\ \A p \in Photo :
                   put(p.user_id, p.id, body) =>
                     \A q \in Photo' :
                       q.id = p.id =>
                         IF SameMark(body.registration) = {}
                         THEN q.uuid_rh = p.uuid_rh
                         ELSE \E r \in SameMark(body.registration) :
                                r.uuid_rh = q.uuid_rh]_vars

\* a POST looked a registration up and was given a row that a request had
\* created from lower-case text
CaseInsensitive_Witness ==
  /\ last.op = "post" /\ res.status = 201 /\ last.branch = "lookup"
  /\ last.new >= 3
  /\ \E r \in RegistrationHistory :
       r.uuid_rh = last.new /\ r.registration \in {"N1", "N2"}

\* ================================================ update of the same aircraft
\* the body asks for no other aircraft than the one of photo p: no uuid_rh,
\* no aircraft_type_id, and no registration or the registration of the row
\* in rows that p references
SameAircraft(body, p, rows) ==
  /\ body.uuid_rh = 0
  /\ ~Truthy(body.aircraft_type_id)
  /\ \/ body.registration = undefined
     \/ \E r \in rows :
          r.uuid_rh = p.uuid_rh /\ r.registration = body.registration

\* the PUT left the reference of photo p and the registration data alone
RegistrationLeftAlone(p) ==
  /\ \A q \in Photo' : q.id = p.id => q.uuid_rh = p.uuid_rh
  /\ UNCHANGED <<RegistrationHistory, SpecificAircraft>>

MaxTotal == 8                \* photos of one user on file
limit == 5                   \* rows of one sample
Resolution == 2 * MaxTotal   \* Math.random() is r / Resolution, 0 <= r < it
Randoms == 0 .. (Resolution - 1)

\* .ilike("RegistrationHistory.registration", `%${search}%`) over the
\* registrations on file, which are as long as the searches
ilike(text, search) == toUpperCase(search) = text

\* the photos that pass applyPhotoFilters and the inner joins of the select:
\* the user's, on a RegistrationHistory whose registration matches the
\* search, of a SpecificAircraft whose type is one of the filter
filtered(user, search, filterArray) ==
  {p \in Photo :
     /\ p.user_id = user
     /\ \E r \in RegistrationHistory :
          /\ r.uuid_rh = p.uuid_rh
          /\ search # "" => ilike(r.registration, search)
          /\ \E a \in SpecificAircraft :
               /\ a.uuid = r.uuid_sa
               /\ filterArray # {} => a.icao_type \in filterArray}

\* the rows of BASE_SELECT, which joins AircraftType as well
selected(user, search, filterArray) ==
  {p \in filtered(user, search, filterArray) :
     \E r \in RegistrationHistory, a \in SpecificAircraft, t \in AircraftType :
       r.uuid_rh = p.uuid_rh /\ a.uuid = r.uuid_sa
         /\ t.icao_type = a.icao_type}

\* let randomOffset = 0;
\* if (count > limit) randomOffset = Math.floor(Math.random() * (count - limit))
randomOffset(count, r) ==
  IF count > limit THEN (r * (count - limit)) \div Resolution ELSE 0

\* .range(from, from + limit - 1) of a select without an order: the rows at
\* these positions of the rows listed in any order
range(rows, from) ==
  LET n == Cardinality(rows)
      k == IF n - from >= limit THEN limit
           ELSE IF n > from THEN n - from ELSE 0
  IN  {d \in SUBSET rows : Cardinality(d) = k}

Sample(status, data, total, offset) ==
  res' = [status |-> status, error |-> "", data |-> data, total |-> total,
          offset |-> offset]

getRandom(user, search, filterArray, r, ok) ==
  LET count == Cardinality(filtered(user, search, filterArray))
      offset == randomOffset(count, r)
  IN  /\ last' = [NoRequest EXCEPT !.op = "random"]
      /\ IF ~ok
           THEN Respond(500, "count")
           ELSE IF count = 0
             THEN Sample(200, {}, 0, 0)
             ELSE \E data \in range(selected(user, search, filterArray),
                                    offset) :
                    Sample(200, {p.id : p \in data}, count, offset)
      /\ UNCHANGED <<store, ids, S3, s3Deletes, aside>>

GetRandom ==
  \E user \in Users, search \in {"", "n1"}, filterArray \in {{}, {"C172"}},
     r \in Randoms, ok \in BOOLEAN :
    getRandom(user, search, filterArray, r, ok)

\* n photos of user u1 on file, the first of registration N2, the others of
\* registration N1, one airframe
RandomStore(n) ==
  /\ SpecificAircraft = {[uuid |-> 1, icao_type |-> "C172"]}
  /\ RegistrationHistory =
       {[uuid_rh |-> 1, uuid_sa |-> 1, registration |-> "N1",
         is_current |-> FALSE],
        [uuid_rh |-> 2, uuid_sa |-> 1, registration |-> "N2",
         is_current |-> TRUE]}
  /\ Photo =
       {[id |-> i, user_id |-> "u1", uuid_rh |-> IF i = 1 THEN 2 ELSE 1,
         airport_code |-> "KSFO", image_url |-> i] : i \in 1 .. n}
  /\ S3 = 1 .. n
  /\ nextPhoto = n + 1 /\ nextRh = 3 /\ nextSa = 3 /\ nextKey = n + 1

RandomInit == (\E n \in 0 .. MaxTotal : RandomStore(n)) /\ ReferenceData

NextRandom == GetRandom

SpecRandom == RandomInit /\ [][NextRandom]_vars

\* the offsets the endpoint can answer with for a count
Offsets(count) == {randomOffset(count, r) : r \in Randoms}

\* C24: for a sample of total_count matching photos the offsets the random
\* endpoint can use are exactly 0 .. total_count - limit when
\* total_count > limit, and 0 alone when 0 < total_count <= limit.
RandomOffsetsExact ==
  (last.op = "random" /\ res.status = 200 /\ res.total > 0) =>
    /\ res.offset \in Offsets(res.total)
    /\ Offsets(res.total) =
         IF res.total > limit THEN 0 .. (res.total - limit) ELSE {0}

\* ==================================================== media of a deleted photo
\* the media object of the row was removed by a DeleteObjectCommand
MediaDeleted(p) == p.image_url \in s3Deletes /\ p.image_url \notin S3

\* C21: delete-photo deletes the Photo row before it attempts the media
\* delete: in no state does a Photo row exist whose media object was already
\* deleted by delete-photo, also not after a failed delete of the Photo row.
RowGoesBeforeMedia == \A p \in Photo : ~MediaDeleted(p)

\* the DeleteObjectCommand of the handler with locals l failed: it was sent
\* and the object is still in the bucket
MediaDeleteFailed(l) ==
  l.op = "delete" /\ l.image \in s3Deletes /\ l.image \in S3

\* C22: a failed delete of the media object is not fatal: a DELETE whose
\* DeleteObjectCommand failed, and none of whose store calls failed, has
\* deleted the Photo row, has run the cleanup of the photo's uuid_rh (the
\* photos on it were counted, and the delete of the RegistrationHistory was
\* sent when none was left), and has answered 200 as it does after a
\* successful media delete.
MediaFailureNotFatal ==
  \A h \in Handlers :
    LET l == handlers[h]
    IN  (MediaDeleteFailed(l) /\ l.pc = "done" /\ ~l.failed) =>
          /\ l.status = 200
          /\ \A p \in Photo : p.id # l.id
          /\ l.old # 0 => /\ l.count # NoCount
                          /\ l.count = 0 => l.issued

\* a DELETE of the last photo of a registration ended with 200 and the
\* RegistrationHistory removed, its media object still in the bucket
MediaFailureNotFatal_Witness ==
  \E h \in Handlers :
    LET l == handlers[h]
    IN  /\ MediaDeleteFailed(l) /\ l.pc = "done" /\ ~l.failed
        /\ l.status = 200 /\ l.count = 0 /\ l.issued
        /\ ~hasRh(RegistrationHistory, l.old)

\* ==================================================== POST /, call by call
\* POST / as the event loop runs it, beside the DELETE and PUT above: the
\* upload to the media store and every call to the relational store is one
\* step.  The request carries a file.

\* the handler is invoked: req.user.id and req.body
arrivePost(s, h, user, body) ==
  With(s, h, [Idle EXCEPT !.pc = "upload", !.op = "post", !.user = user,
                          !.body = body])

\* POST "If uuid_rh is provided ... we skip creation": the call that comes
\* next; registration.toUpperCase() of the lookup throws on an absent
\* registration
created(l) ==
  IF supplied(l.body.uuid_rh)
  THEN [l EXCEPT !.final = l.body.uuid_rh, !.pc = "insertPhoto"]
  ELSE IF Truthy(l.body.aircraft_type_id)
  THEN [l EXCEPT !.pc = "postSaInsert"]
  ELSE IF l.body.registration = undefined
  THEN answer(l, 500)
  ELSE [l EXCEPT !.pc = "postRhLookup"]

\* POST "2. Upload to S3" under the key `key`, and the validation of the
\* airport fields; a failed upload is thrown
uploadStep(s, h, ok, key) ==
  LET l     == s.handlers[h]
      other == l.body.airport_code = "other"
      l1    == [l EXCEPT !.image = key, !.airport = l.body.airport_code]
      s1    == [s EXCEPT !.S3 = @ \cup {key}]
  IN  IF ~ok
      THEN {With(s, h, answer(l, 500))}
      ELSE IF other /\ airportFieldsMissing(l.body)
      THEN {With(s1, h, answer(l1, 400))}
      ELSE IF other
      THEN {With(s1, h, [l1 EXCEPT !.pc = "postAirport"])}
      ELSE {With(s1, h, created(l1))}

\* POST: the insert of the airport; every error ends the request
postAirportStep(s, h, ok) ==
  LET l        == called(s.handlers[h], ok)
      icao     == toUpperCase(l.body.airport_icao_code)
      inserted == insertAirport(s.Airport, icao)
  IN  IF ~ok \/ inserted.error # ""
      THEN {With(s, h, answer(l, 500))}
      ELSE {With([s EXCEPT !.Airport = inserted.rows], h,
                 created([l EXCEPT !.airport = icao]))}

\* POST "Create Specific Aircraft"; registration.toUpperCase() of the
\* insert that follows throws on an absent registration
postSaInsertStep(s, h, ok) ==
  LET l  == called(s.handlers[h], ok)
      l1 == [l EXCEPT !.saData = s.nextSa]
  IN  IF ~ok
      THEN {With(s, h, answer(l, 500))}
      ELSE {With([s EXCEPT !.SpecificAircraft =
                             insertSpecificAircraft(
                               @, s.nextSa, l.body.aircraft_type_id),
                           !.nextSa = @ + 1],
                 h, IF l.body.registration = undefined
                    THEN answer(l1, 500)
                    ELSE [l1 EXCEPT !.pc = "postRhInsert"])}

\* a handler that takes the SpecificAircraft back when the insert of the
\* RegistrationHistory fails
postRhInsertStepUndoing(s, h, ok) ==
  LET l == called(s.handlers[h], ok)
  IN  IF ~ok
      THEN {With([s EXCEPT !.SpecificAircraft =
                             {a \in @ : a.uuid # l.saData}],
                 h, answer(l, 500))}
      ELSE {With([s EXCEPT !.RegistrationHistory =
                             insertRegistrationHistory(
                               @, s.nextRh, l.saData,
                               toUpperCase(l.body.registration)),
                           !.nextRh = @ + 1],
                 h, [l EXCEPT !.final = s.nextRh, !.pc = "insertPhoto"])}

\* POST "Create Registration History"
postRhInsertStep(s, h, ok) ==
  LET l == called(s.handlers[h], ok)
  IN  IF ~ok
      THEN {With(s, h, answer(l, 500))}
      ELSE {With([s EXCEPT !.RegistrationHistory =
                             insertRegistrationHistory(
                               @, s.nextRh, l.saData,
                               toUpperCase(l.body.registration)),
                           !.nextRh = @ + 1],
                 h, [l EXCEPT !.final = s.nextRh, !.pc = "insertPhoto"])}

\* POST "Fallback: Try to find existing registration"
postRhLookupStep(s, h, ok) ==
  LET l      == called(s.handlers[h], ok)
      rhData == rhLookup(s.RegistrationHistory,
                         toUpperCase(l.body.registration))
  IN  IF ~ok
      THEN {With(s, h, answer(l, 500))}
      ELSE IF rhData = {}
      THEN {With(s, h, answer(l, 404))}
      ELSE {With(s, h, [l EXCEPT !.final = found, !.pc = "insertPhoto"]) :
              found \in rhData}

\* POST "Insert Photo" with the identifier photoId; an error is thrown
insertPhotoStep(s, h, ok, photoId) ==
  LET l == called(s.handlers[h], ok)
  IN  IF ~ok
      THEN {With(s, h, answer(l, 500))}
      ELSE {With([s EXCEPT !.Photo =
                    @ \cup {[id |-> photoId, user_id |-> l.user,
                             uuid_rh |-> l.final, airport_code |-> l.airport,
                             image_url |-> l.image]}],
                 h, answer([l EXCEPT !.id = photoId], 201))}

\* the world n replaces the present one, with the identifiers of the
\* photos and of the uploads as given
BecomeWith(n, photoId, key) ==
  /\ Photo' = n.Photo
  /\ RegistrationHistory' = n.RegistrationHistory
  /\ SpecificAircraft' = n.SpecificAircraft
  /\ Airport' = n.Airport
  /\ S3' = n.S3
  /\ s3Deletes' = n.s3Deletes
  /\ nextRh' = n.nextRh
  /\ nextSa' = n.nextSa
  /\ handlers' = n.handlers
  /\ nextPhoto' = photoId
  /\ nextKey' = key
  /\ UNCHANGED <<last, res, AircraftType, User>>

Upload(h) ==
  At(h, "upload") /\ nextKey <= MaxKey
    /\ \E ok \in BOOLEAN : \E n \in uploadStep(World, h, ok, nextKey) :
         BecomeWith(n, nextPhoto, IF ok THEN nextKey + 1 ELSE nextKey)
PostAirportInsert(h) ==
  At(h, "postAirport")
    /\ \E ok \in Outcomes : \E n \in postAirportStep(World, h, ok) : Become(n)
PostSaInsert(h) ==
  At(h, "postSaInsert") /\ nextSa <= MaxSa
    /\ \E ok \in Outcomes : \E n \in postSaInsertStep(World, h, ok) : Become(n)
PostRhInsert(h) ==
  At(h, "postRhInsert") /\ nextRh <= MaxRh
    /\ \E ok \in Outcomes : \E n \in postRhInsertStep(World, h, ok) : Become(n)
PostRhLookup(h) ==
  At(h, "postRhLookup")
    /\ \E ok \in Outcomes : \E n \in postRhLookupStep(World, h, ok) : Become(n)
InsertPhoto(h) ==
  At(h, "insertPhoto")
    /\ \E ok \in Outcomes :
         \E n \in insertPhotoStep(World, h, ok, nextPhoto) :
           BecomeWith(n, IF ok THEN nextPhoto + 1 ELSE nextPhoto, nextKey)

\* the next await of some POST returns
AwaitPost ==
  \E h \in Handlers :
    \/ Upload(h)
    \/ PostAirportInsert(h)
    \/ PostSaInsert(h)
    \/ PostRhInsert(h)
    \/ PostRhLookup(h)
    \/ InsertPhoto(h)

\* ------------------------------------ a create races with a delete or update
\* one photo on each of the registrations N1 and N2 of two airframes
CreateStore ==
  /\ SpecificAircraft = {[uuid |-> 1, icao_type |-> "C172"],
                         [uuid |-> 2, icao_type |-> "C172"]}
  /\ RegistrationHistory =
       {[uuid_rh |-> 1, uuid_sa |-> 1, registration |-> "N1",
         is_current |-> TRUE],
        [uuid_rh |-> 2, uuid_sa |-> 2, registration |-> "N2",
         is_current |-> TRUE]}
  /\ Photo =
       {[id |-> 1, user_id |-> "u1", uuid_rh |-> 1, airport_code |-> "KSFO",
         image_url |-> 1],
        [id |-> 2, user_id |-> "u1", uuid_rh |-> 2, airport_code |-> "KSFO",
         image_url |-> 2]}
  /\ S3 = {1, 2}
  /\ nextPhoto = 3 /\ nextRh = 3 /\ nextSa = 3 /\ nextKey = 3

CreateInit == CreateStore /\ ReferenceData

\* the bodies of the POST: the uuid_rh of the registration N1, its text to
\* look up, a registration to create with and without its text, and a new
\* airport
CreateBodies ==
  { MkBody(undefined, undefined, r.uuid_rh, ListedAirport) :
      r \in {x \in RegistrationHistory : x.registration = "N1"} }
  \cup
  { MkBody("n1", undefined, 0, ListedAirport),
    MkBody("n1", "C172", 0, ListedAirport),
    MkBody(undefined, "C172", 0, ListedAirport),
    MkBody("n1", undefined, 0, NewAirport) }

\* POST / with a file arrives
CreateArrives ==
  \E h \in Handlers, user \in Uploaders, body \in CreateBodies :
    /\ At(h, "idle") /\ nextKey <= MaxKey
    /\ Become(arrivePost(World, h, user, body))

NextCreate ==
  \/ CreateArrives
  \/ UpdateArrives
  \/ DeleteArrives
  \/ Await
  \/ AwaitPost

SpecCreate == CreateInit /\ [][NextCreate]_vars

\* the request with locals l inserted a SpecificAircraft, its insert of the
\* RegistrationHistory failed, and it has finished: the reference it works
\* with is the one it started with
RhInsertFailed(l) ==
  /\ l.op \in {"post", "put"} /\ l.pc = "done"
  /\ l.saData # 0 /\ l.failed /\ l.final = l.old

\* C25: no compensating rollback: a POST or PUT with aircraft_type_id whose
\* SpecificAircraft insert succeeded and whose RegistrationHistory insert
\* failed ends with an error response, has made no call after the failed
\* one (no Photo row inserted or modified, no cleanup), and the new
\* SpecificAircraft row remains.
NoRollback ==
  \A h \in Handlers :
    LET l == handlers[h]
    IN  RhInsertFailed(l) =>
          /\ l.status = 500
          /\ ~l.late /\ l.count = NoCount /\ ~l.issued
          /\ l.op = "post" => \A p \in Photo : p.image_url # l.image
          /\ l.op = "put" =>
               \A p \in Photo : p.id = l.id => p.uuid_rh = l.old
          /\ hasSa(SpecificAircraft, l.saData)
          /\ RowsOn(RegistrationHistory, l.saData) = {}

\* a POST and a PUT have both failed at the insert of the
\* RegistrationHistory and have left their SpecificAircraft rows behind
NoRollback_Witness ==
  \E h, g \in Handlers :
    /\ RhInsertFailed(handlers[h]) /\ handlers[h].op = "post"
    /\ RhInsertFailed(handlers[g]) /\ handlers[g].op = "put"
    /\ handlers[h].status = 500 /\ handlers[g].status = 500
    /\ hasSa(SpecificAircraft, handlers[h].saData)
    /\ hasSa(SpecificAircraft, handlers[g].saData)

\* the POST with locals c took a RegistrationHistory on file (by its uuid_rh
\* or by the lookup) and the DELETE or PUT with locals g took another photo,
\* the one it fetched, off that row; both have answered and no store call
\* of theirs has failed
CreateRacedRemoval(c, g) ==
  /\ c.op = "post" /\ c.pc = "done" /\ g.id # c.id
  /\ c.saData = 0 /\ c.final # 0 /\ ~c.failed
  /\ g.pc = "done" /\ g.status = 200 /\ g.old = c.final /\ ~g.failed
  /\ g.op = "delete" \/ (g.op = "put" /\ g.final # g.old)

\* C29: a create that resolves an existing RegistrationHistory, racing with
\* a delete or update that removes the last photo reference to it: once
\* both have answered, either the create has failed and inserted no Photo,
\* or its Photo references a RegistrationHistory that exists together with
\* its SpecificAircraft.
CreateSurvivesCleanup ==
  \A h, k \in Handlers :
    LET c == handlers[h]
        g == handlers[k]
    IN  CreateRacedRemoval(c, g) =>
          \/ c.status # 201 /\ \A p \in Photo : p.image_url # c.image
          \/ \E p \in Photo :
               /\ p.image_url = c.image
               /\ \E r \in RegistrationHistory :
                    /\ r.uuid_rh = p.uuid_rh
                    /\ hasSa(SpecificAircraft, r.uuid_sa)

====
